---- MODULE Spec2Model ----
(***************************************************************************)
(* A model of py.py: the scan of a directory tree for pom.xml descriptors  *)
(* (find_pom_files), the extraction of one descriptor                      *)
(* (extract_project_info with resolve_property and read_env_variables)     *)
(* and the assembly of the HTML report (process_projects).                 *)
(*                                                                         *)
(* A Python str is a sequence of one-character strings.  The value None    *)
(* and the result None of Element.find are the two sentinels None and      *)
(* Missing, which are sequences too so that they compare with strings.     *)
(***************************************************************************)
EXTENDS Integers, Sequences, FiniteSets, TLC

VARIABLES
    doc, result, epc,                       \* one call of extract_project_info
    env_variables, line, nread, nchars,     \* one call of read_env_variables
    exists, rpc,
    tree, include_subfolders, found, fpc,   \* one call of find_pom_files
    pom_files, idx, project_counter,        \* one call of process_projects
    html_rows, returned, written, pc

vars == <<doc, result, epc, env_variables, line, nread, nchars, exists, rpc,
          tree, include_subfolders, found, fpc,
          pom_files, idx, project_counter, html_rows, returned, written, pc>>

extractVars == <<doc, result, epc>>
envVars     == <<env_variables, line, nread, nchars, exists, rpc>>
findVars    == <<tree, include_subfolders, found, fpc>>
runVars     == <<pom_files, idx, project_counter, html_rows, returned, written, pc>>

\* ------------------------------------------------------------------ bounds

\* artifactItem and dependency elements of one descriptor
MaxElems == 2
\* lines of one application.properties, characters of one line, and
\* characters of the whole file (its newlines apart)
MaxLines == 2
MaxLineLen == 3
MaxFileChars == 5
\* entries (files and directories) below the scanned root
MaxEntries == 4

\* ----------------------------------------------------------------- strings

None    == <<"<None>">>
Missing == <<"<Missing>">>

\* Code points of the characters the model uses (str comparison is by code point).
Ord(c) ==
    CASE c = " " -> 32  [] c = "#" -> 35  [] c = "$" -> 36  [] c = "(" -> 40
      [] c = ")" -> 41  [] c = "-" -> 45  [] c = "/" -> 47  [] c = "1" -> 49
      [] c = "2" -> 50  [] c = ":" -> 58  [] c = "<" -> 60  [] c = "=" -> 61
      [] c = ">" -> 62  [] c = "N" -> 78  [] c = "S" -> 83  [] c = "a" -> 97
      [] c = "b" -> 98  [] c = "e" -> 101 [] c = "g" -> 103 [] c = "h" -> 104
      [] c = "k" -> 107 [] c = "n" -> 110 [] c = "o" -> 111 [] c = "q" -> 113
      [] c = "r" -> 114 [] c = "v" -> 118 [] c = "{" -> 123 [] c = "}" -> 125

\* str(x) inside an f-string: None is formatted as the text None.
Str(t) == IF t = None THEN <<"N", "o", "n", "e">> ELSE t

\* sub in s
Contains(s, sub) ==
    \E i \in 1..(Len(s) - Len(sub) + 1) : SubSeq(s, i, i + Len(sub) - 1) = sub

\* s[2:], the closing brace kept
Slice2ToEnd(s) == SubSeq(s, 3, Len(s))

\* s[2:-1]
Slice2ToLast(s) == SubSeq(s, 3, Len(s) - 1)

\* a < b on str
RECURSIVE StrLess(_, _)
StrLess(a, b) ==
    IF b = <<>> THEN FALSE
    ELSE IF a = <<>> THEN TRUE
    ELSE IF Ord(Head(a)) # Ord(Head(b)) THEN Ord(Head(a)) < Ord(Head(b))
    ELSE StrLess(Tail(a), Tail(b))

\* The place of x in an ascending list: after every element not greater than it.
RECURSIVE Insert(_, _)
Insert(x, s) ==
    IF s = <<>> THEN <<x>>
    ELSE IF StrLess(x, Head(s)) THEN <<x>> \o s
    ELSE <<Head(s)>> \o Insert(x, Tail(s))

RECURSIVE InsertionSort(_)
InsertionSort(s) ==
    IF s = <<>> THEN <<>>
    ELSE Insert(s[Len(s)], InsertionSort(SubSeq(s, 1, Len(s) - 1)))

Unsorted(s) == s

\* sorted(list of str)
sorted(s) == InsertionSort(s)

\* --------------------------------------------------- read_env_variables

\* str.strip() removes whitespace at both ends; a line's newline is whitespace
\* and is not written in the model's lines.
IsSpace(c) == c = " "

RECURSIVE lstrip(_)
lstrip(s) == IF s # <<>> /\ IsSpace(Head(s)) THEN lstrip(Tail(s)) ELSE s

RECURSIVE rstrip(_)
rstrip(s) ==
    IF s # <<>> /\ IsSpace(s[Len(s)]) THEN rstrip(SubSeq(s, 1, Len(s) - 1)) ELSE s

strip(s) == rstrip(lstrip(s))

startswith(s, c) == s # <<>> /\ Head(s) = c

\* The index of the first "=" of s, 0 when it has none.
RECURSIVE FirstEq(_, _)
FirstEq(s, i) ==
    IF i > Len(s) THEN 0 ELSE IF s[i] = "=" THEN i ELSE FirstEq(s, i + 1)

\* The index of the last "=" of s, 0 when it has none.
RECURSIVE LastEq(_, _)
LastEq(s, i) ==
    IF i < 1 THEN 0 ELSE IF s[i] = "=" THEN i ELSE LastEq(s, i - 1)

SplitAtLast(s) ==
    LET i == LastEq(s, Len(s))
    IN  IF i = 0 THEN <<s>> ELSE <<SubSeq(s, 1, i - 1), SubSeq(s, i + 1, Len(s))>>

\* line.split('=', 1)
split_eq_1(s) ==
    LET i == FirstEq(s, 1)
    IN  IF i = 0 THEN <<s>> ELSE <<SubSeq(s, 1, i - 1), SubSeq(s, i + 1, Len(s))>>

\* d[key] = value on a dict kept as the sequence of its items in insertion order:
\* an existing key keeps its place and takes the new value.
DictSet(d, key, value) ==
    IF \E i \in 1..Len(d) : d[i][1] = key
    THEN [i \in 1..Len(d) |-> IF d[i][1] = key THEN <<key, value>> ELSE d[i]]
    ELSE Append(d, <<key, value>>)

DictKeys(d) == {d[i][1] : i \in 1..Len(d)}

DictGet(d, key) == d[CHOOSE i \in 1..Len(d) : d[i][1] = key][2]

\* The body of the loop over the lines of the file: the dict after one line.
\* A line with no "=" makes the unpacking raise ValueError, which is passed over.
ReadLine(env, rawline) ==
    LET stripped == strip(rawline)
    IN  IF stripped # <<>> /\ ~startswith(stripped, "#")
        THEN LET parts == split_eq_1(stripped)
             IN  IF Len(parts) = 2
                 THEN DictSet(env, strip(parts[1]), strip(parts[2]))
                 ELSE env
        ELSE env

RECURSIVE ReadLines(_, _)
ReadLines(env, lines) ==
    IF lines = <<>> THEN env ELSE ReadLines(ReadLine(env, Head(lines)), Tail(lines))

\* An application.properties: absent, or its lines.
PropertiesFile(present, lines) == [present |-> present, lines |-> lines]

read_env_variables(file) ==
    IF file.present THEN ReadLines(<<>>, file.lines) ELSE <<>>

\* ------------------------------------------------- extract_project_info

\* A descriptor as ElementTree sees it.  kind: "xml" parses, "malformed" makes
\* ET.parse raise ParseError, "unreadable" makes it raise OSError (the path is a
\* directory, or cannot be opened).  groupId, artifactId and version hold what
\* find(tag) gives: Missing for no such child, else the child's text, None for
\* an element with no text.  elems are the artifactItem and dependency elements
\* below the root in document order.
XmlDoc(g, a, props, elems) ==
    [kind |-> "xml", groupId |-> g, artifactId |-> a, properties |-> props,
     elems |-> elems]

NoProperties == [present |-> FALSE, children |-> <<>>]

OtherDoc(kind) ==
    [kind |-> kind, groupId |-> Missing, artifactId |-> Missing,
     properties |-> NoProperties, elems |-> <<>>]

\* The text of the first child prop_name of the root's properties child, None
\* when there is no properties child or no such child in it.
resolve_property(root, prop_name) ==
    IF root.properties.present
    THEN LET ch   == root.properties.children
             hits == {i \in 1..Len(ch) : ch[i].name = prop_name}
         IN  IF hits # {}
             THEN ch[CHOOSE i \in hits : \A j \in hits : i <= j].text
             ELSE None
    ELSE None

\* `if resolved_version:` is false for None and for the empty string.
Truthy(t) == t # None /\ t # <<>>

ItemLabel(item) == Str(item.groupId) \o <<":">> \o Str(item.artifactId)

Paren(t) == <<" ", "(">> \o Str(t) \o <<")">>

\* The string one artifactItem appends to api_dependencies (lines 61-74).
FormatItem(root, item) ==
    IF item.version # Missing
    THEN LET version_text == item.version
         IN  IF Contains(version_text, <<"$", "{">>) /\ Contains(version_text, <<"}">>)
             THEN LET prop_name        == Slice2ToLast(version_text)
                      resolved_version == resolve_property(root, prop_name)
                  IN  IF Truthy(resolved_version)
                      THEN ItemLabel(item) \o Paren(resolved_version)
                      ELSE ItemLabel(item) \o Paren(version_text)
             ELSE ItemLabel(item) \o Paren(version_text)
    ELSE ItemLabel(item)

\* What one pass of the artifactItem loop raises: find(...).text on a missing
\* child is AttributeError (lines 59-60), `in` on a version text of None is
\* TypeError (line 64).
ItemRaises(item) ==
    IF item.groupId = Missing \/ item.artifactId = Missing THEN "AttributeError"
    ELSE IF item.version # Missing /\ item.version = None THEN "TypeError"
    ELSE "none"

\* What one pass of the dependency loop raises (lines 76-77).
DependencyRaises(dep) ==
    IF dep.groupId = Missing \/ dep.artifactId = Missing THEN "AttributeError"
    ELSE "none"

\* The exception of the first pass that raises one.
RECURSIVE FirstRaised(_)
FirstRaised(excs) ==
    IF excs = <<>> THEN "none"
    ELSE IF Head(excs) # "none" THEN Head(excs)
    ELSE FirstRaised(Tail(excs))

IsArtifactItem(e) == e.tag = "artifactItem"
IsDependency(e)   == e.tag = "dependency"

\* root.findall('.//ns:artifactItem'), root.findall('.//ns:dependency')
ArtifactItems(d) == SelectSeq(d.elems, IsArtifactItem)
Dependencies(d)  == SelectSeq(d.elems, IsDependency)

\* The three ways a call ends: a record is returned, the all-None tuple is
\* returned after a message is printed, or an exception leaves the function.
Returned(name, api, deps, env, path) ==
    [outcome |-> "return", exc |-> "none", log |-> "none",
     project_name |-> name, api_dependencies |-> api, dependencies |-> deps,
     env_variables |-> env, pom_file |-> path]

Skipped(log) ==
    [outcome |-> "return", exc |-> "none", log |-> log,
     project_name |-> None, api_dependencies |-> None, dependencies |-> None,
     env_variables |-> None, pom_file |-> None]

Raised(exc) ==
    [outcome |-> "raise", exc |-> exc, log |-> "none",
     project_name |-> None, api_dependencies |-> None, dependencies |-> None,
     env_variables |-> None, pom_file |-> None]

ProjectName(d) ==
    Str(d.groupId) \o <<":", "<", "b", ">">> \o Str(d.artifactId)
        \o <<"<", "/", "b", ">">>

extract_project_info(pom_file, d, envfile) ==
    IF d.kind = "unreadable" THEN Raised("OSError")
    ELSE IF d.kind = "malformed" THEN Skipped("Error parsing")
    ELSE IF d.groupId # Missing /\ d.artifactId # Missing
    THEN LET items    == ArtifactItems(d)
             deps     == Dependencies(d)
             itemExc  == FirstRaised([i \in 1..Len(items) |-> ItemRaises(items[i])])
             depExc   == FirstRaised([i \in 1..Len(deps) |-> DependencyRaises(deps[i])])
             api      == [i \in 1..Len(items) |-> FormatItem(d, items[i])]
             depNames == [i \in 1..Len(deps) |-> ItemLabel(deps[i])]
         IN  IF itemExc = "AttributeError" THEN Skipped("Error parsing")
             ELSE IF itemExc = "TypeError" THEN Raised("TypeError")
             ELSE IF depExc = "AttributeError" THEN Skipped("Error parsing")
             ELSE Returned(ProjectName(d), sorted(api), depNames,
                           read_env_variables(envfile), pom_file)
    ELSE Skipped("Missing groupId or artifactId")


\* ------------------------------------------------ the inputs of the model

RootGroupIds    == {Missing, None, <<"g">>}
RootArtifactIds == {Missing, None, <<"a">>}

\* A properties child holds the children p and r, in that order, each at most
\* once (a well-formed descriptor names a property once).
PropertyChild(name, text) == [name |-> name, text |-> text]

PropertyBlocks ==
    {NoProperties} \cup
    {[present |-> TRUE, children |-> p \o r] :
        p \in {<<>>, <<PropertyChild(<<"p">>, <<"1">>)>>},
        r \in {<<>>, <<PropertyChild(<<"r">>, <<"2">>)>>,
               <<PropertyChild(<<"r">>, None)>>}}

Versions ==
    {Missing, None, <<"1">>, <<"$", "{", "r", "}">>, <<"$", "{", "q", "}">>,
     <<"$", "{", "r", "}", "-", "S">>}

Element(tag, g, a, v) == [tag |-> tag, groupId |-> g, artifactId |-> a, version |-> v]

ItemElements ==
    {Element("artifactItem", ids[1], ids[2], v) :
        ids \in {<<<<"h">>, <<"a">>>>, <<Missing, <<"a">>>>, <<<<"h">>, Missing>>},
        v \in Versions}

DependencyElements ==
    {Element("dependency", ids[1], ids[2], Missing) :
        ids \in {<<<<"g">>, <<"a">>>>, <<<<"g">>, <<"b">>>>,
                 <<Missing, <<"a">>>>, <<<<"g">>, Missing>>}}

Elements == ItemElements \cup DependencyElements

ElementLists == UNION {[1..n -> Elements] : n \in 0..MaxElems}

Docs ==
    {XmlDoc(g, a, props, elems) :
        g \in RootGroupIds, a \in RootArtifactIds,
        props \in PropertyBlocks, elems \in ElementLists}
    \cup {OtherDoc("malformed"), OtherDoc("unreadable")}

EnvFiles ==
    {PropertiesFile(FALSE, <<>>), PropertiesFile(TRUE, << <<"k", "=", "v">> >>)}

PomPath == <<"A", "pom.xml">>

\* ------------------------------------- one call of each function, at rest

ExtractIdle == doc = OtherDoc("malformed") /\ result = Skipped("none") /\ epc = "idle"
EnvIdle     == /\ env_variables = <<>> /\ line = <<>> /\ nread = 0 /\ nchars = 0
               /\ exists = FALSE /\ rpc = "idle"
FindIdle    == tree = {} /\ include_subfolders = FALSE /\ found = <<>> /\ fpc = "idle"
RunIdle     == /\ pom_files = <<>> /\ idx = 1 /\ project_counter = 1
               /\ html_rows = <<>> /\ returned = <<>> /\ written = 0 /\ pc = "idle"

\* ------------------------------------- SpecExtract: extract_project_info

InitExtract ==
    /\ doc \in Docs
    /\ result = Skipped("none")
    /\ epc = "call"
    /\ EnvIdle /\ FindIdle /\ RunIdle

\* extract_project_info(pom_file) on the descriptor doc, beside any
\* application.properties.
Extract ==
    /\ epc = "call"
    /\ \E envfile \in EnvFiles :
          result' = extract_project_info(PomPath, doc, envfile)
    /\ epc' = IF result'.outcome = "raise" THEN "raised" ELSE "returned"
    /\ UNCHANGED <<doc, envVars, findVars, runVars>>

NextExtract == Extract

SpecExtract == InitExtract /\ [][NextExtract]_vars


\* ------------------------------------------ properties of the extraction

\* A record came back: the call returned and the project name is not None.
RecordProduced == epc = "returned" /\ result.project_name # None

InList(x, list) == \E i \in 1..Len(list) : list[i] = x

Count(x, list) == Cardinality({i \in 1..Len(list) : list[i] = x})

\* a <= b in the order of str: a is a prefix of b, or at the first place they
\* differ a has the smaller code point.
StrLeq(a, b) ==
    \E k \in 1..(Len(a) + 1) :
        /\ \A j \in 1..(k - 1) : j <= Len(b) /\ a[j] = b[j]
        /\ \/ k = Len(a) + 1 /\ Len(b) >= Len(a)
           \/ k <= Len(a) /\ k <= Len(b) /\ Ord(a[k]) < Ord(b[k])

Placeholder(x) == <<"$", "{">> \o x \o <<"}">>

\* The names a version of the model may refer to.
ReferredNames == {<<"p">>, <<"q">>, <<"r">>}

\* The descriptor's properties define x with the text v.
Defines(d, x, v) ==
    /\ d.properties.present
    /\ \E i \in 1..Len(d.properties.children) :
          d.properties.children[i] = PropertyChild(x, v)

HasChild(d, x) ==
    /\ d.properties.present
    /\ \E i \in 1..Len(d.properties.children) : d.properties.children[i].name = x

PropertyTexts == {<<"1">>, <<"2">>}

LacksId(e) == e.groupId = Missing \/ e.artifactId = Missing

\* C2: a record (a project name that is not None) comes back only when the
\* root has a groupId child and an artifactId child that are both present and
\* non-empty; with either absent or empty the all-None tuple comes back.
C2_RecordOnlyForNonEmptyIds ==
    epc = "returned" =>
        \/ /\ doc.kind = "xml"
           /\ doc.groupId \notin {Missing, None}
           /\ doc.artifactId \notin {Missing, None}
        \/ result.project_name = None

\* C4: of a descriptor that gives a record, api_dependencies holds the
\* formatted strings of the artifactItem elements, each as often as it was
\* formatted, in ascending order of str, and dependencies holds group:artifact
\* of the dependency elements in document order.
C4_ApiSortedDepsInDocumentOrder ==
    RecordProduced =>
        LET items == ArtifactItems(doc)
            deps  == Dependencies(doc)
            fmt   == [i \in 1..Len(items) |-> FormatItem(doc, items[i])]
            api   == result.api_dependencies
        IN  /\ Len(api) = Len(items)
            /\ \A i \in 1..Len(fmt) : Count(fmt[i], api) = Count(fmt[i], fmt)
            /\ \A i \in 1..(Len(api) - 1) : StrLeq(api[i], api[i + 1])
            /\ Len(result.dependencies) = Len(deps)
            /\ \A i \in 1..Len(deps) :
                  result.dependencies[i]
                      = deps[i].groupId \o <<":">> \o deps[i].artifactId

\* Two artifactItem elements whose strings stand in descending order in the
\* document came back in ascending order.
C4_Witness ==
    /\ RecordProduced
    /\ Len(ArtifactItems(doc)) = 2
    /\ LET items == ArtifactItems(doc)
       IN  /\ FormatItem(doc, items[1]) # FormatItem(doc, items[2])
           /\ result.api_dependencies[1] = FormatItem(doc, items[2])
           /\ result.api_dependencies[2] = FormatItem(doc, items[1])

\* C5: of a descriptor that gives a record, an artifactItem whose version text
\* is exactly ${x} is recorded as group:artifact (v) when the properties child
\* has an element x with the text v, and as group:artifact (${x}) when there is
\* no properties child or no element x in it.
C5_ExactPlaceholder ==
    RecordProduced =>
        \A i \in 1..Len(doc.elems) : \A x \in ReferredNames :
            LET e == doc.elems[i]
            IN  (IsArtifactItem(e) /\ e.version = Placeholder(x)) =>
                    /\ \A v \in PropertyTexts :
                          Defines(doc, x, v) =>
                              InList(e.groupId \o <<":">> \o e.artifactId
                                         \o <<" ", "(">> \o v \o <<")">>,
                                     result.api_dependencies)
                    /\ ~HasChild(doc, x) =>
                          InList(e.groupId \o <<":">> \o e.artifactId
                                     \o <<" ", "(">> \o Placeholder(x) \o <<")">>,
                                 result.api_dependencies)

\* One record holds a resolved placeholder, h:a (2), beside an unresolved one,
\* h:a (${q}).
C5_Witness ==
    /\ RecordProduced
    /\ Defines(doc, <<"r">>, <<"2">>)
    /\ \E i, j \in 1..Len(doc.elems) :
          /\ doc.elems[i].version = Placeholder(<<"r">>)
          /\ doc.elems[j].version = Placeholder(<<"q">>)
    /\ InList(<<"h", ":", "a", " ", "(", "2", ")">>, result.api_dependencies)
    /\ InList(<<"h", ":", "a", " ", "(", "$", "{", "q", "}", ")">>,
              result.api_dependencies)

\* C8: of a descriptor that gives a record, an artifactItem whose version text
\* holds ${x} anywhere is recorded with the value of x when the properties
\* define x, and with its raw version text otherwise.
C8_PlaceholderAnywhere ==
    RecordProduced =>
        \A i \in 1..Len(doc.elems) : \A x \in ReferredNames :
            LET e == doc.elems[i]
            IN  (IsArtifactItem(e) /\ Contains(e.version, Placeholder(x))) =>
                    /\ \A v \in PropertyTexts :
                          Defines(doc, x, v) =>
                              InList(e.groupId \o <<":">> \o e.artifactId
                                         \o <<" ", "(">> \o v \o <<")">>,
                                     result.api_dependencies)
                    /\ ~HasChild(doc, x) =>
                          InList(e.groupId \o <<":">> \o e.artifactId
                                     \o <<" ", "(">> \o e.version \o <<")">>,
                                 result.api_dependencies)

\* C9: a parsed descriptor with an artifactItem or dependency element that
\* lacks its groupId or artifactId child makes the call return the all-None
\* tuple, whatever its other elements are.
C9_LackingElementSkipsFile ==
    (/\ epc \in {"returned", "raised"}
     /\ doc.kind = "xml"
     /\ \E i \in 1..Len(doc.elems) : LacksId(doc.elems[i]))
        => (epc = "returned" /\ result.project_name = None)


\* ----------------------------------------- SpecEnv: read_env_variables

LineChars == {" ", "#", "=", "k", "v"}

Lines == UNION {[1..n -> LineChars] : n \in 0..MaxLineLen}

\* The call starts with the empty dict; the file is there or not.
InitEnv ==
    /\ env_variables = <<>>
    /\ line = <<>>
    /\ nread = 0
    /\ nchars = 0
    /\ exists \in BOOLEAN
    /\ rpc = "call"
    /\ ExtractIdle /\ FindIdle /\ RunIdle

\* os.path.exists(properties_path): the file is opened, or the empty dict is
\* returned.
EnvOpen ==
    /\ rpc = "call"
    /\ rpc' = IF exists THEN "loop" ELSE "returned"
    /\ UNCHANGED <<env_variables, line, nread, nchars, exists,
                   extractVars, findVars, runVars>>

\* One pass of `for line in prop_file`, on the next line of the file.
EnvReadLine ==
    /\ rpc = "loop"
    /\ nread < MaxLines
    /\ \E l \in Lines :
          /\ nchars + Len(l) <= MaxFileChars
          /\ line' = l
          /\ nchars' = nchars + Len(l)
          /\ env_variables' = ReadLine(env_variables, l)
    /\ nread' = nread + 1
    /\ UNCHANGED <<exists, rpc, extractVars, findVars, runVars>>

\* The file has no more lines: the dict is returned, the local line is gone.
EnvReturn ==
    /\ rpc = "loop"
    /\ rpc' = "returned"
    /\ line' = <<>>
    /\ UNCHANGED <<env_variables, nread, nchars, exists,
                   extractVars, findVars, runVars>>

NextEnv == EnvOpen \/ EnvReadLine \/ EnvReturn

SpecEnv == InitEnv /\ [][NextEnv]_vars

\* s without the whitespace at its two ends: from its first character that is
\* no space to its last.
Trimmed(s) ==
    LET solid == {n \in 1..Len(s) : s[n] # " "}
    IN  IF solid = {} THEN <<>>
        ELSE SubSeq(s, CHOOSE n \in solid : \A m \in solid : n <= m,
                       CHOOSE n \in solid : \A m \in solid : n >= m)

\* after is before with key set to value and every other key as it was.
IsUpdate(after, before, key, value) ==
    /\ DictKeys(after) = DictKeys(before) \cup {key}
    /\ Len(after) = Cardinality(DictKeys(after))
    /\ DictGet(after, key) = value
    /\ \A other \in DictKeys(before) \ {key} :
          DictGet(after, other) = DictGet(before, other)

\* What the line l does to the dict before, as the properties format has it.
LineEffect(before, l, after) ==
    LET t      == Trimmed(l)
        equals == {n \in 1..Len(t) : t[n] = "="}
    IN  IF t = <<>> \/ t[1] = "#" \/ equals = {}
        THEN after = before
        ELSE LET n == CHOOSE e \in equals : \A m \in equals : e <= m
             IN  IsUpdate(after, before, Trimmed(SubSeq(t, 1, n - 1)),
                          Trimmed(SubSeq(t, n + 1, Len(t))))

\* C6: each line read is trimmed; a blank line, a line that starts with # and
\* a line with no = leave the dict as it was; any other line is split at its
\* first = only and sets the trimmed key to the trimmed value.  With no file
\* the dict returned is empty.
C6_LinesParsedAtFirstEquals ==
    /\ [][nread' = nread + 1 => LineEffect(env_variables, line', env_variables')]_vars
    /\ []((rpc = "returned" /\ ~exists) => env_variables = <<>>)

\* The line k== was read and set the key k to the value =.
C6_Witness ==
    /\ rpc = "loop"
    /\ line = <<"k", "=", "=">>
    /\ <<"k">> \in DictKeys(env_variables)
    /\ DictGet(env_variables, <<"k">>) = <<"=">>


\* ---------------------------------------------- SpecFind: find_pom_files

\* A directory tree below the scanned root: a set of entries, each a path (the
\* names from the root down) and a kind, the parent of every entry a directory
\* of the tree or the root itself.  An entry of any name may be a regular file
\* or a directory.
Names == {"A", "B", "pom.xml"}

\* The order in which a listing (os.scandir, os.walk) gives the names of one
\* directory.
ListingOrder == <<"A", "B", "pom.xml">>

Entry(path, kind) == [path |-> path, kind |-> kind]

IsDir(t, path)  == path = <<>> \/ Entry(path, "dir") \in t
IsFile(t, path) == Entry(path, "file") \in t

\* os.path.exists
Exists(t, path) == IsDir(t, path) \/ IsFile(t, path)

DirPaths(t) == {<<>>} \cup {e.path : e \in {x \in t : x.kind = "dir"}}

\* The paths a new entry of t may take: a new name in a directory of t.
FreePaths(t) ==
    {d \o <<n>> : d \in DirPaths(t), n \in Names} \ {e.path : e \in t}

\* The trees with one more entry than t.
Grown(t) == {t \cup {Entry(p, k)} : p \in FreePaths(t), k \in {"file", "dir"}}

RECURSIVE TreesUpTo(_)
TreesUpTo(n) ==
    IF n = 0 THEN {{}}
    ELSE LET smaller == TreesUpTo(n - 1)
         IN  smaller \cup UNION {Grown(t) : t \in smaller}

Trees == TreesUpTo(MaxEntries)

RECURSIVE Concat(_)
Concat(seqs) == IF seqs = <<>> THEN <<>> ELSE Head(seqs) \o Concat(Tail(seqs))

\* os.walk(directory) from the directory dir down, top first: the files of dir
\* named pom.xml, then the same of each directory listed in dir.  A directory
\* is listed among dirs, never among files.
RECURSIVE Walk(_, _)
Walk(t, dir) ==
    LET pom  == dir \o <<"pom.xml">>
        here == IF IsFile(t, pom) THEN <<pom>> ELSE <<>>
        subs == [i \in 1..Len(ListingOrder) |->
                    IF Entry(dir \o <<ListingOrder[i]>>, "dir") \in t
                    THEN Walk(t, dir \o <<ListingOrder[i]>>)
                    ELSE <<>>]
    IN  here \o Concat(subs)

\* The branch of include_subfolders false: the directories listed in the root,
\* and of each the path pom.xml inside it when os.path.exists says it is there.
Direct(t) ==
    LET subs == [i \in 1..Len(ListingOrder) |->
                    IF Entry(<<ListingOrder[i]>>, "dir") \in t
                       /\ Exists(t, <<ListingOrder[i], "pom.xml">>)
                    THEN << <<ListingOrder[i], "pom.xml">> >>
                    ELSE <<>>]
    IN  Concat(subs)

find_pom_files(t, subfolders) == IF subfolders THEN Walk(t, <<>>) ELSE Direct(t)

InitFind ==
    /\ tree \in Trees
    /\ include_subfolders \in BOOLEAN
    /\ found = <<>>
    /\ fpc = "call"
    /\ ExtractIdle /\ EnvIdle /\ RunIdle

\* find_pom_files(directory, include_subfolders) on the tree.
Find ==
    /\ fpc = "call"
    /\ found' = find_pom_files(tree, include_subfolders)
    /\ fpc' = "returned"
    /\ UNCHANGED <<tree, include_subfolders, extractVars, envVars, runVars>>

NextFind == Find

SpecFind == InitFind /\ [][NextFind]_vars

Range(s) == {s[i] : i \in 1..Len(s)}

\* C7: without subfolders the result is the paths sub/pom.xml of the
\* directories sub listed in the root that hold a file pom.xml, and nothing
\* deeper; with subfolders it is the path of every file named pom.xml of the
\* tree, at any depth.
C7_DirectAndRecursiveResults ==
    fpc = "returned" =>
        IF include_subfolders
        THEN Range(found) =
                {e.path : e \in {x \in tree :
                    x.kind = "file" /\ x.path[Len(x.path)] = "pom.xml"}}
        ELSE Range(found) =
                {<<n, "pom.xml">> : n \in {m \in Names :
                    IsDir(tree, <<m>>) /\ IsFile(tree, <<m, "pom.xml">>)}}

\* C10: every path the scan without subfolders returns is returned by the scan
\* with subfolders of the same tree.
C10_DirectWithinRecursive ==
    (fpc = "returned" /\ ~include_subfolders) =>
        Range(found) \subseteq Range(find_pom_files(tree, TRUE))


\* -------------------------------------------------- Spec: process_projects

\* The descriptors a run may meet at the paths it was given: each way a call
\* of extract_project_info can end, and a record with and without lists.
RunDocs ==
    {XmlDoc(<<"g">>, <<"a">>, NoProperties, <<>>),
     XmlDoc(<<"g">>, <<"a">>,
            [present |-> TRUE, children |-> <<PropertyChild(<<"r">>, <<"2">>)>>],
            <<Element("artifactItem", <<"h">>, <<"a">>, <<"$", "{", "r", "}">>),
              Element("dependency", <<"g">>, <<"b">>, Missing)>>),
     XmlDoc(None, <<"a">>, NoProperties, <<>>),
     XmlDoc(Missing, <<"a">>, NoProperties, <<>>),
     XmlDoc(<<"g">>, <<"a">>, NoProperties,
            <<Element("dependency", <<"g">>, Missing, Missing)>>),
     XmlDoc(<<"g">>, <<"a">>, NoProperties,
            <<Element("artifactItem", <<"h">>, <<"a">>, None)>>),
     OtherDoc("malformed"),
     OtherDoc("unreadable")}

\* What ET.parse may find at a path find_pom_files gave: a directory cannot be
\* read as a file, a regular file holds any descriptor.
DocsAt(t, path) == IF IsFile(t, path) THEN RunDocs ELSE {OtherDoc("unreadable")}

\* The <tr> of one record: the counter, the name, the path, and the items of
\* the three lists (a cell with no items is the empty cell).
Row(counter, r) ==
    [index |-> counter, name |-> r.project_name, path |-> r.pom_file,
     api |-> r.api_dependencies, deps |-> r.dependencies, env |-> r.env_variables]

CounterAfterAnyFile(counter, r) == counter + 1

\* project_counter after the pass of the loop on the result r: it moves on
\* inside `if project_name is not None` only.
CounterAfter(counter, r) ==
    IF r.project_name # None THEN counter + 1 ELSE counter

\* html_content after the pass of the loop on the result r.
RowsAfter(rows, counter, r) ==
    IF r.project_name # None THEN Append(rows, Row(counter, r)) ELSE rows

Init ==
    /\ tree \in Trees
    /\ include_subfolders \in BOOLEAN
    /\ pom_files = <<>>
    /\ idx = 1
    /\ project_counter = 1
    /\ html_rows = <<>>
    /\ returned = <<>>
    /\ written = 0
    /\ pc = "start"
    /\ found = <<>> /\ fpc = "idle"
    /\ ExtractIdle /\ EnvIdle

\* Lines 90-101: the scan, the head of the table, the counter at 1.
Start ==
    /\ pc = "start"
    /\ pom_files' = find_pom_files(tree, include_subfolders)
    /\ project_counter' = 1
    /\ html_rows' = <<>>
    /\ pc' = "loop"
    /\ UNCHANGED <<idx, returned, written, tree, include_subfolders, found, fpc,
                   extractVars, envVars>>

\* Lines 102-131: one pass of the loop, on the next path.  An exception that
\* extract_project_info lets through leaves process_projects at once.
ProcessFile ==
    /\ pc = "loop"
    /\ idx <= Len(pom_files)
    /\ \E d \in DocsAt(tree, pom_files[idx]), envfile \in EnvFiles :
          LET r == extract_project_info(pom_files[idx], d, envfile)
          IN  /\ returned' = Append(returned, r)
              /\ IF r.outcome = "raise"
                 THEN /\ pc' = "raised"
                      /\ UNCHANGED <<html_rows, project_counter, idx>>
                 ELSE /\ html_rows' = RowsAfter(html_rows, project_counter, r)
                      /\ project_counter' = CounterAfter(project_counter, r)
                      /\ idx' = idx + 1
                      /\ pc' = pc
    /\ UNCHANGED <<pom_files, written, tree, include_subfolders, found, fpc,
                   extractVars, envVars>>

\* Lines 133-136: the loop is over, the table is closed and written.
WriteOutput ==
    /\ pc = "loop"
    /\ idx > Len(pom_files)
    /\ written' = written + 1
    /\ pc' = "done"
    /\ UNCHANGED <<pom_files, idx, project_counter, html_rows, returned, tree,
                   include_subfolders, found, fpc, extractVars, envVars>>

Next == Start \/ ProcessFile \/ WriteOutput

Spec == Init /\ [][Next]_vars

IsRecord(r) == r.outcome = "return" /\ r.project_name # None

\* C1: no file stops the run: whatever the files hold, every path is handed
\* to extract_project_info in turn, no exception leaves the loop, and a run
\* that is over has written the output once.
C1_NoFileIsFatal ==
    /\ pc # "raised"
    /\ \A i \in 1..Len(returned) : returned[i].outcome = "return"
    /\ pc = "done" => (written = 1 /\ Len(returned) = Len(pom_files))

\* C3: the rows are the records extracted so far, in the order of the paths,
\* and the k-th row has the index k: a skipped file takes no index.
C3_RowsDenseInOrder ==
    LET recs == SelectSeq(returned, IsRecord)
    IN  /\ Len(html_rows) = Len(recs)
        /\ pc \in {"loop", "done"} => project_counter = Len(html_rows) + 1
        /\ \A k \in 1..Len(html_rows) :
              /\ html_rows[k].index = k
              /\ html_rows[k].name = recs[k].project_name
              /\ html_rows[k].path = recs[k].pom_file
              /\ html_rows[k].api = recs[k].api_dependencies
              /\ html_rows[k].deps = recs[k].dependencies
              /\ html_rows[k].env = recs[k].env_variables

\* A run that skipped its first file and made a row of its second is over.
C3_Witness ==
    /\ pc = "done"
    /\ Len(returned) = 2
    /\ ~IsRecord(returned[1])
    /\ IsRecord(returned[2])
    /\ Len(html_rows) = 1
    /\ html_rows[1].index = 1
    /\ html_rows[1].path = pom_files[2]


====
